---- MODULE Spec2Model ----
(***************************************************************************)
(* CoachBot AI (src/app.py): one Streamlit script run per user interaction.*)
(* A run stores the sidebar's form answers as the profile, constructs a    *)
(* CoachBotAI (credential check, configure, model listing, model probes),  *)
(* and display_results shows or generates the three plans, caching each    *)
(* generated text in generated_plans.                                      *)
(*                                                                         *)
(* Strings the program formats are modelled as sequences of text chunks    *)
(* (a prompt) or as TLC strings built with \o (a cache key).  An error-log *)
(* entry is modelled by its message label; its timestamp and its free-text *)
(* details (traceback, exception text) are left out.  A text returned by   *)
(* the service is a record naming the prompt it answers and its body.      *)
(***************************************************************************)
EXTENDS Naturals, Sequences, FiniteSets, TLC

VARIABLES
    api_key,          \* __init__: the credential as read from st.secrets
    user_profile,     \* st.session_state.user_profile
    generated_plans,  \* st.session_state.generated_plans
    error_log,        \* st.session_state.error_log
    pc,               \* position of the current script run
    generate_clicked, \* main: generate_clicked
    profile_exists,   \* main: profile_exists
    model_index,      \* CoachBotAI.__init__: position in model_attempts
    coach_model,      \* CoachBotAI.model: index of the selected identifier, 0 = None
    probe_outcomes,   \* per probed identifier: did the probe return non-empty text
    calls,            \* requests sent to the external service in the current run
    response,         \* what the latest generate_content call came back with
    displayed,        \* st.markdown output of each tab in the current run
    st_errors,        \* st.error messages shown in the current run
    result            \* outcome of a generation entry point called directly

vars == <<api_key, user_profile, generated_plans, error_log, pc, generate_clicked,
          profile_exists, model_index, coach_model, probe_outcomes, calls,
          response, displayed, st_errors, result>>

-----------------------------------------------------------------------------
(* Bounds of the model *)

\* A run starts only while the error log holds at most this many entries;
\* beyond it the user clears the log first.
MaxLogAtRunStart == 0

\* Bodies the service may answer a prompt with.
Bodies == {"plan text"}

\* What st.secrets may hold for GEMINI_API_KEY when a run reads it: nothing,
\* or a character sequence.  Unread: the run has not read it (yet).
Unread == <<"<unread>">>
NoSecret == <<"<absent>">>
SecretChoices == { NoSecret, <<>>, <<" ", "\t">>, <<"A", "I", "z", "a">> }

-----------------------------------------------------------------------------
(* Python values *)

PyNone == "<NoneType>"
EmptyDict == [k \in {} |-> TRUE]
Truthy(v) == v # PyNone /\ v # ""

Get(d, k, default) == IF k \in DOMAIN d THEN d[k] ELSE default

Digit(n) == <<"0", "1", "2", "3", "4", "5", "6", "7", "8", "9">>[n + 1]

RECURSIVE Str(_)
Str(n) == IF n < 10 THEN Digit(n) ELSE Str(n \div 10) \o Digit(n % 10)

RECURSIVE Join(_, _)
Join(sep, items) ==
    IF Len(items) = 0 THEN ""
    ELSE IF Len(items) = 1 THEN items[1]
    ELSE items[1] \o sep \o Join(sep, Tail(items))

UpperUnchanged(s) == s
Upper(s) ==
    CASE s = "cricket" -> "CRICKET"
      [] s = "kabaddi" -> "KABADDI"
      [] s = "volleyball" -> "VOLLEYBALL"
      [] OTHER -> s

IsSpace(c) == c \in {" ", "\t", "\n"}

RECURSIVE LStrip(_)
LStrip(s) == IF Len(s) > 0 /\ IsSpace(Head(s)) THEN LStrip(Tail(s)) ELSE s

RECURSIVE RStrip(_)
RStrip(s) ==
    IF Len(s) > 0 /\ IsSpace(s[Len(s)]) THEN RStrip(SubSeq(s, 1, Len(s) - 1)) ELSE s

Strip(s) == RStrip(LStrip(s))

-----------------------------------------------------------------------------
(* Sport-specific data and the sidebar form *)

SPORT_DATA ==
    [ cricket |-> [ positions |-> <<"Batsman">>,
                    common_injuries |-> <<"Hamstring strain">> ],
      kabaddi |-> [ positions |-> <<"Raider">>,
                    common_injuries |-> <<"Knee ligament tear">> ] ]

Range(s) == { s[i] : i \in DOMAIN s }

\* The body measurements a user types: both left blank, or both filled in.
Measurements == { [height |-> "", weight |-> ""],
                  [height |-> "175", weight |-> "65.5"] }

\* The answers a user can give in the sidebar form.
FormInputs ==
    { [ sport |-> s, position |-> p, current_injury |-> i,
        height |-> m.height, weight |-> m.weight,
        restrictions |-> <<>>, rare_allergies |-> "" ] :
      s \in DOMAIN SPORT_DATA, p \in {"Batsman", "Raider"},
      i \in {"None", "Hamstring strain", "Knee ligament tear"},
      m \in Measurements }

ValidForm(f) ==
    /\ f.position \in Range(SPORT_DATA[f.sport].positions)
    /\ f.current_injury \in {"None"} \cup Range(SPORT_DATA[f.sport].common_injuries)

\* display_sidebar: the profile stored from the form's answers.
BuildProfile(f) ==
    LET base == [ sport |-> f.sport,
                  position |-> f.position,
                  age |-> 18,
                  gender |-> "Male",
                  height |-> f.height,
                  weight |-> f.weight,
                  experience |-> 3,
                  training_days |-> 4,
                  fitness_level |-> "Beginner",
                  goals |-> <<"Strength", "Skill">>,
                  current_injury |-> f.current_injury,
                  competition_level |-> "Recreational",
                  dietary_restrictions |-> f.restrictions,
                  rare_allergies |->
                      IF f.rare_allergies # "" THEN f.rare_allergies ELSE PyNone ]
    IN  IF f.current_injury # "None"
        THEN base @@ [ injury_duration |-> "< 2 weeks",
                       limitations |-> "Pain during certain movements" ]
        ELSE base

SidebarProfiles == { BuildProfile(f) : f \in { g \in FormInputs : ValidForm(g) } }

-----------------------------------------------------------------------------
(* The external text-generation service *)

\* What one generate_content call can come back with: a response holding
\* text, a response holding empty text, no response object, or an error.
Responses ==
    { [kind |-> "text", body |-> b] : b \in Bodies } \cup
    { [kind |-> k, body |-> ""] : k \in {"empty", "none", "raises"} }

\* response.text: the text of response r to the given prompt.
NoResponse == [kind |-> "unset", body |-> ""]

ResponseText(prompt, r) == [reply_to |-> prompt, body |-> r.body]

\* A generate_content request.  Sampling values are in hundredths.
Request(prompt, config) ==
    [op |-> "generate_content", prompt |-> prompt, config |-> config]

\* Outcome of a call: a returned value, or an exception of type exc; with the
\* error-log entries the call appended and the requests it sent.
Returned(value, sent) ==
    [raised |-> FALSE, exc |-> "", value |-> value, log |-> <<>>, sent |-> sent]

Raised(exc, sent) ==
    [raised |-> TRUE, exc |-> exc, value |-> ResponseText(<<>>, [body |-> ""]),
     log |-> <<>>, sent |-> sent]

Missing(user_data, fields) == \E f \in fields : f \notin DOMAIN user_data

\* "if not response or not response.text"
NoUsableTextLax(r) == r.kind = "none"
NoUsableText(r) == r.kind = "none" \/ r.body = ""

\* The try body shared by the generation methods: build the prompt (a
\* KeyError when a field it reads is missing), send it, check the response.
SendPrompt(user_data, reads, prompt, config, r) ==
    IF Missing(user_data, reads) THEN Raised("KeyError", <<>>)
    ELSE IF r.kind = "raises" THEN Raised("ServiceError", <<Request(prompt, config)>>)
    ELSE IF NoUsableText(r) THEN Raised("Exception", <<Request(prompt, config)>>)
    ELSE IF r.kind = "none" THEN Raised("AttributeError", <<Request(prompt, config)>>)
    ELSE Returned(ResponseText(prompt, r), <<Request(prompt, config)>>)

\* "except Exception as e: log_error(label, ...); raise Exception(...)"
HandlerReraise(outcome, label) ==
    IF outcome.raised
    THEN [outcome EXCEPT !.log = Append(outcome.log, label)]
    ELSE outcome
Handler(outcome, label) ==
    IF outcome.raised
    THEN [outcome EXCEPT !.exc = "Exception", !.log = Append(outcome.log, label)]
    ELSE outcome

-----------------------------------------------------------------------------
(* Prompt builders and generation entry points of CoachBotAI *)

NormalPromptStamped(user_data) ==
    << "Create a COMPLETE", "4-week", "training program for:",
       "SPORT:", Upper(user_data.sport),
       "POSITION:", user_data.position,
       "LOGGED SO FAR:", Str(Len(error_log)) >>
NormalPrompt(user_data) ==
    << "Create a COMPLETE", "4-week", "training program for:",
       "SPORT:", Upper(user_data.sport),
       "POSITION:", user_data.position,
       "AGE:", Str(user_data.age), "years",
       "EXPERIENCE:", Str(user_data.experience), "years",
       "TRAINING DAYS:", Str(user_data.training_days), "/week",
       "GOALS:", Join(", ", user_data.goals),
       "FITNESS LEVEL:", user_data.fitness_level,
       "The program MUST include: WEEK 1-2: BASE BUILDING ... WEEK 3-4: INTENSIFICATION ...",
       "Make it SPECIFIC to", user_data.sport, user_data.position >>

NormalConfig == [temperature |-> 30, top_p |-> 80, max_output_tokens |-> 1500]

generate_normal_plan(user_data, r) ==
    Handler(SendPrompt(user_data,
                       {"sport", "position", "age", "experience", "training_days",
                        "goals", "fitness_level"},
                       NormalPrompt(user_data), NormalConfig, r),
            "Generate Normal Plan Error")

InjuryPrompt(user_data) ==
    << "Create a SAFE, injury-modified training program for:",
       "SPORT:", Upper(user_data.sport),
       "POSITION:", user_data.position,
       "INJURY:", user_data.current_injury,
       "INJURY DURATION:", Get(user_data, "injury_duration", "Recent"),
       "LIMITATIONS:", Get(user_data, "limitations", "Pain during activity"),
       "AGE:", Str(user_data.age), "years",
       "IMPORTANT SAFETY RULES:",
       "1. DO NOT recommend exercises that could worsen", user_data.current_injury,
       "2. Focus on rehabilitation and safe alternatives ...",
       "Create a 3-PHASE RECOVERY PROGRAM: ...",
       "2. Modifications for", user_data.sport >>

InjuryConfig == [temperature |-> 20, top_p |-> 70, max_output_tokens |-> 800]

generate_injury_plan(user_data, r) ==
    Handler(SendPrompt(user_data, {"sport", "position", "current_injury", "age"},
                       InjuryPrompt(user_data), InjuryConfig, r),
            "Generate Injury Plan Error")

required_fields ==
    {"sport", "position", "age", "experience", "training_days", "goals",
     "fitness_level", "current_injury"}

\* "if user_data['current_injury'] != 'None'"
HasInjuryNever(user_data) == FALSE
HasInjury(user_data) == user_data.current_injury # "None"

create_personalized_plan(user_data, r) ==
    Handler(IF Missing(user_data, required_fields) THEN Raised("KeyError", <<>>)
            ELSE IF HasInjury(user_data) THEN generate_injury_plan(user_data, r)
            ELSE generate_normal_plan(user_data, r),
            "Create Plan Error")

RECURSIVE Bullets(_)
Bullets(items) ==
    IF Len(items) = 0 THEN <<>> ELSE <<"-", Head(items)>> \o Bullets(Tail(items))

\* dietary_info of generate_nutrition_plan
DietaryInfo(user_data) ==
    <<"DIETARY RESTRICTIONS:">>
    \o (IF Len(Get(user_data, "dietary_restrictions", <<>>)) > 0
        THEN Bullets(user_data.dietary_restrictions)
        ELSE <<"-", "No dietary restrictions">>)
    \o (IF Truthy(Get(user_data, "rare_allergies", PyNone))
        THEN <<"RARE ALLERGIES:", "-", user_data.rare_allergies>>
        ELSE <<>>)

NutritionPrompt(user_data) ==
    << "Create a DETAILED 7-day nutrition plan for a", user_data.sport, "athlete.",
       "ATHLETE PROFILE:",
       "- Sport:", user_data.sport,
       "- Position:", user_data.position,
       "- Age:", Str(user_data.age), "years",
       "- Weight:", Get(user_data, "weight", "Not specified"), "kg",
       "- Height:", Get(user_data, "height", "Not specified"), "cm",
       "- Gender:", user_data.gender,
       "- Training:", Str(user_data.training_days), "days/week",
       "- Goals:", Join(", ", user_data.goals) >>
    \o DietaryInfo(user_data)
    \o << "NUTRITIONAL REQUIREMENTS: ...",
          "Create a COMPLETE meal plan with: ...",
          "IMPORTANT: Strictly respect all dietary restrictions listed above." >>

NutritionConfig == [temperature |-> 40, top_p |-> 80, max_output_tokens |-> 2000]

generate_nutrition_plan(user_data, r) ==
    Handler(SendPrompt(user_data,
                       {"sport", "position", "age", "gender", "training_days", "goals"},
                       NutritionPrompt(user_data), NutritionConfig, r),
            "Generate Nutrition Plan Error")

TacticalPrompt(user_data) ==
    << "Provide detailed tactical coaching advice for:",
       "SPORT:", Upper(user_data.sport),
       "POSITION:", user_data.position,
       "EXPERIENCE:", Str(user_data.experience), "years",
       "LEVEL:", user_data.competition_level,
       "Cover these areas: ...",
       "Provide SPECIFIC examples for", user_data.sport, user_data.position >>

TacticalConfig == [temperature |-> 50, top_p |-> 85, max_output_tokens |-> 1000]

generate_tactical_advice(user_data, r) ==
    Handler(SendPrompt(user_data,
                       {"sport", "position", "experience", "competition_level"},
                       TacticalPrompt(user_data), TacticalConfig, r),
            "Generate Tactical Advice Error")

EntryPoint(kind, user_data, r) ==
    CASE kind = "training" -> create_personalized_plan(user_data, r)
      [] kind = "nutrition" -> generate_nutrition_plan(user_data, r)
      [] kind = "tactical" -> generate_tactical_advice(user_data, r)

-----------------------------------------------------------------------------
(* Session state and the script run *)

Kinds == {"training", "nutrition", "tactical"}

\* display_results: the cache key of each tab
PlanKey(kind, user_data) ==
    CASE kind = "training" ->
             "training_plan_" \o user_data.sport \o "_" \o user_data.position
      [] kind = "nutrition" ->
             "nutrition_plan_" \o user_data.sport \o "_" \o user_data.position
      [] kind = "tactical" ->
             "tactical_advice_" \o user_data.sport \o "_" \o user_data.position

\* "if plan_key not in st.session_state.generated_plans" decides a miss
CacheHitNever(key, plans) == FALSE
CacheHit(key, plans) == key \in DOMAIN plans

\* "st.session_state.generated_plans[plan_key] = plan"
StoreAlone(plans, key, text) == key :> text
Store(plans, key, text) ==
    [k \in DOMAIN plans \cup {key} |-> IF k = key THEN text ELSE plans[k]]

model_attempts ==
    << "gemini-pro", "models/gemini-pro", "gemini-1.5-pro", "models/gemini-1.5-pro",
       "gemini-1.5-flash", "models/gemini-1.5-flash", "gemini-1.0-pro",
       "models/gemini-1.0-pro" >>

\* "if test_response and test_response.text"
ProbeSucceedsAlways(r) == TRUE
ProbeSucceeds(r) == r.kind \notin {"raises", "none"} /\ r.body # ""

\* Tab order of display_results
NextTabSwapped(kind) ==
    CASE kind = "training" -> "tab_tactical"
      [] kind = "tactical" -> "tab_nutrition"
      [] kind = "nutrition" -> "done"
NextTab(kind) ==
    CASE kind = "training" -> "tab_nutrition"
      [] kind = "nutrition" -> "tab_tactical"
      [] kind = "tactical" -> "done"

\* A failed generation ends display_results: the handler's "return".
AfterFailureContinues(kind) == NextTab(kind)
AfterFailure(kind) == "done"

TabLogLabel(kind) ==
    CASE kind = "training" -> "Display Results - Training Plan"
      [] kind = "nutrition" -> "Display Results - Nutrition Plan"
      [] kind = "tactical" -> "Display Results - Tactical Advice"

TabErrorText(kind) ==
    CASE kind = "training" -> "Error generating training plan:"
      [] kind = "nutrition" -> "Error generating nutrition plan:"
      [] kind = "tactical" -> "Error generating tactical advice:"

Init ==
    /\ api_key = Unread
    /\ user_profile = EmptyDict
    /\ generated_plans = EmptyDict
    /\ error_log = <<>>
    /\ pc = "idle"
    /\ generate_clicked = FALSE
    /\ profile_exists = FALSE
    /\ model_index = 0
    /\ coach_model = 0
    /\ probe_outcomes = <<>>
    /\ calls = <<>>
    /\ response = NoResponse
    /\ displayed = EmptyDict
    /\ st_errors = <<>>
    /\ result = <<>>

\* A script run begins: display_sidebar stores the profile and returns the
\* state of the generate button.
DisplaySidebarStoresOnClick(f, clicked) ==
    /\ pc = "idle"
    /\ Len(error_log) <= MaxLogAtRunStart
    /\ ValidForm(f)
    /\ user_profile' = IF clicked THEN BuildProfile(f) ELSE user_profile
    /\ generate_clicked' = clicked
    /\ pc' = "content"
    /\ UNCHANGED <<api_key, generated_plans, error_log, profile_exists, model_index,
                   coach_model, probe_outcomes, calls, response, displayed, st_errors,
                   result>>
DisplaySidebar(f, clicked) ==
    /\ pc = "idle"
    /\ Len(error_log) <= MaxLogAtRunStart
    /\ ValidForm(f)
    /\ user_profile' = BuildProfile(f)
    /\ generate_clicked' = clicked
    /\ pc' = "content"
    /\ UNCHANGED <<api_key, generated_plans, error_log, profile_exists, model_index,
                   coach_model, probe_outcomes, calls, response, displayed, st_errors,
                   result>>

\* A run in which the user, in debug mode, pressed "Clear Error Log":
\* display_sidebar stores the profile, display_debug_info empties the log
\* and st.rerun() abandons the run.
ClearErrorLog(f) ==
    /\ pc = "idle"
    /\ Len(error_log) > 0
    /\ ValidForm(f)
    /\ user_profile' = BuildProfile(f)
    /\ error_log' = <<>>
    /\ UNCHANGED <<api_key, generated_plans, pc, generate_clicked, profile_exists,
                   model_index, coach_model, probe_outcomes, calls, response,
                   displayed, st_errors, result>>

\* display_main_content, then main's "if profile_exists or generate_clicked"
DisplayMainContent ==
    /\ pc = "content"
    /\ profile_exists' = (user_profile # EmptyDict)
    /\ pc' = IF profile_exists' \/ generate_clicked THEN "init_key" ELSE "done"
    /\ UNCHANGED <<api_key, user_profile, generated_plans, error_log, generate_clicked,
                   model_index, coach_model, probe_outcomes, calls, response,
                   displayed, st_errors, result>>

\* CoachBotAI.__init__ raises: its handler logs and shows the failure and
\* re-raises; main's handler logs and shows it; the run ends.
InitFailsResetsLog(entries) ==
    /\ error_log' = <<"CoachBotAI Initialization Error", "Main - Coach Initialization">>
    /\ st_errors' = st_errors
                    \o <<"CoachBotAI Initialization Failed", "Failed to initialize CoachBot AI">>
    /\ pc' = "done"
InitFails(entries) ==
    /\ error_log' = error_log \o entries
                    \o <<"CoachBotAI Initialization Error", "Main - Coach Initialization">>
    /\ st_errors' = st_errors
                    \o <<"CoachBotAI Initialization Failed", "Failed to initialize CoachBot AI">>
    /\ pc' = "done"

\* Step 1 of __init__: the credential must be present and not blank.
KeyUsableLax(s) == s # NoSecret
KeyUsable(s) == s # NoSecret /\ Len(s) > 0 /\ Len(Strip(s)) # 0

CheckApiKey(secret) ==
    /\ pc = "init_key"
    /\ api_key' = secret
    /\ IF KeyUsable(secret)
       THEN /\ pc' = "init_configure"
            /\ UNCHANGED <<error_log, st_errors>>
       ELSE InitFails(<<>>)
    /\ UNCHANGED <<user_profile, generated_plans, generate_clicked,
                   profile_exists, model_index, coach_model, probe_outcomes, calls,
                   response, displayed, result>>

\* Step 2: genai.configure
ConfigureGemini(ok) ==
    /\ pc = "init_configure"
    /\ calls' = Append(calls, [op |-> "configure"])
    /\ IF ok
       THEN /\ error_log' = Append(error_log, "API Configuration")
            /\ pc' = "init_list"
            /\ UNCHANGED st_errors
       ELSE InitFails(<<>>)
    /\ UNCHANGED <<api_key, user_profile, generated_plans, generate_clicked,
                   profile_exists, model_index, coach_model, probe_outcomes,
                   response, displayed, result>>

\* Step 3: genai.list_models, whose failure is logged and ignored
ListModels(ok) ==
    /\ pc = "init_list"
    /\ calls' = Append(calls, [op |-> "list_models"])
    /\ error_log' = Append(error_log, IF ok THEN "Available Models" ELSE "List Models Error")
    /\ model_index' = 1
    /\ coach_model' = 0
    /\ pc' = "init_probe"
    /\ UNCHANGED <<api_key, user_profile, generated_plans, generate_clicked,
                   profile_exists, probe_outcomes, response, displayed, st_errors,
                   result>>

\* Step 4, one iteration of "for model_name in model_attempts"
ProbeModel(r) ==
    /\ pc = "init_probe"
    /\ calls' = Append(calls, [op |-> "probe", model |-> model_attempts[model_index]])
    /\ response' = r
    /\ probe_outcomes' = Append(probe_outcomes, r.kind = "text")
    /\ IF ProbeSucceeds(r)
       THEN /\ coach_model' = model_index
            /\ error_log' = error_log \o <<"Model Attempt", "Model Success">>
            /\ pc' = "init_check"
            /\ UNCHANGED model_index
       ELSE /\ error_log' = error_log \o <<"Model Attempt", "Model Failed">>
            /\ IF model_index < Len(model_attempts)
               THEN model_index' = model_index + 1 /\ pc' = "init_probe"
               ELSE model_index' = model_index /\ pc' = "init_check"
            /\ UNCHANGED coach_model
    /\ UNCHANGED <<api_key, user_profile, generated_plans, generate_clicked,
                   profile_exists, displayed, st_errors, result>>

\* Step 5: "if self.model is None"; otherwise main's "if generate_clicked or
\* profile_exists" leads to display_results.
CheckModel ==
    /\ pc = "init_check"
    /\ IF coach_model = 0
       THEN InitFails(<<"Initialization Failed">>)
       ELSE /\ pc' = IF generate_clicked \/ profile_exists THEN "tab_training" ELSE "done"
            /\ UNCHANGED <<error_log, st_errors>>
    /\ UNCHANGED <<api_key, user_profile, generated_plans, generate_clicked,
                   profile_exists, model_index, coach_model, probe_outcomes, calls,
                   response, displayed, result>>

\* One tab of display_results: show the cached text, or call the tab's
\* generation entry point and cache what it returns; a failure is logged,
\* shown, and display_results returns.
ShowTab(kind, r) ==
    LET user_data == user_profile
        key == PlanKey(kind, user_data)
    IN  IF CacheHit(key, generated_plans)
        THEN /\ displayed' = displayed @@ (kind :> generated_plans[key])
             /\ pc' = NextTab(kind)
             /\ UNCHANGED <<generated_plans, error_log, calls, response, st_errors>>
        ELSE LET o == EntryPoint(kind, user_data, r)
             IN  /\ response' = IF Len(o.sent) > 0 THEN r ELSE response
                 /\ calls' = calls \o [i \in 1..Len(o.sent) |->
                                         [op |-> "generate", kind |-> kind,
                                          model |-> model_attempts[coach_model],
                                          request |-> o.sent[i]]]
                 /\ IF o.raised
                    THEN /\ error_log' = error_log \o o.log \o <<TabLogLabel(kind)>>
                         /\ st_errors' = Append(st_errors, TabErrorText(kind))
                         /\ pc' = AfterFailure(kind)
                         /\ UNCHANGED <<generated_plans, displayed>>
                    ELSE /\ generated_plans' = Store(generated_plans, key, o.value)
                         /\ displayed' = displayed @@ (kind :> generated_plans'[key])
                         /\ error_log' = error_log \o o.log
                         /\ pc' = NextTab(kind)
                         /\ UNCHANGED st_errors

TabTraining ==
    /\ pc = "tab_training"
    /\ \E r \in Responses : ShowTab("training", r)
    /\ UNCHANGED <<api_key, user_profile, generate_clicked, profile_exists,
                   model_index, coach_model, probe_outcomes, result>>

TabNutrition ==
    /\ pc = "tab_nutrition"
    /\ \E r \in Responses : ShowTab("nutrition", r)
    /\ UNCHANGED <<api_key, user_profile, generate_clicked, profile_exists,
                   model_index, coach_model, probe_outcomes, result>>

TabTactical ==
    /\ pc = "tab_tactical"
    /\ \E r \in Responses : ShowTab("tactical", r)
    /\ UNCHANGED <<api_key, user_profile, generate_clicked, profile_exists,
                   model_index, coach_model, probe_outcomes, result>>

\* main returns: the run's locals and what it sent and showed are gone.
FinishRun ==
    /\ pc = "done"
    /\ pc' = "idle"
    /\ api_key' = Unread
    /\ generate_clicked' = FALSE
    /\ profile_exists' = FALSE
    /\ model_index' = 0
    /\ coach_model' = 0
    /\ probe_outcomes' = <<>>
    /\ calls' = <<>>
    /\ response' = NoResponse
    /\ displayed' = EmptyDict
    /\ st_errors' = <<>>
    /\ UNCHANGED <<user_profile, generated_plans, error_log, result>>

Next ==
    \/ \E f \in FormInputs, clicked \in BOOLEAN : DisplaySidebar(f, clicked)
    \/ \E f \in FormInputs : ClearErrorLog(f)
    \/ DisplayMainContent
    \/ \E secret \in SecretChoices : CheckApiKey(secret)
    \/ \E ok \in BOOLEAN : ConfigureGemini(ok)
    \/ \E ok \in BOOLEAN : ListModels(ok)
    \/ \E r \in Responses : ProbeModel(r)
    \/ CheckModel
    \/ TabTraining
    \/ TabNutrition
    \/ TabTactical
    \/ FinishRun

Spec == Init /\ [][Next]_vars

-----------------------------------------------------------------------------
(* The generation entry points called directly, on any profile *)

Without(d, k) == [x \in DOMAIN d \ {k} |-> d[x]]

\* Profiles a caller may pass: a stored profile, or one with a field missing.
EntryProfiles ==
    SidebarProfiles \cup
    { Without(p, k) : p \in SidebarProfiles,
                      k \in required_fields \cup {"gender", "weight", "height",
                                                   "competition_level"} }

InitEntry ==
    /\ api_key = <<"A", "I", "z", "a">>
    /\ user_profile \in EntryProfiles
    /\ generated_plans = EmptyDict
    /\ error_log = <<>>
    /\ pc = "entry"
    /\ generate_clicked = FALSE
    /\ profile_exists = FALSE
    /\ model_index = 1
    /\ coach_model = 1
    /\ probe_outcomes = <<TRUE>>
    /\ calls = <<>>
    /\ response = NoResponse
    /\ displayed = EmptyDict
    /\ st_errors = <<>>
    /\ result = <<>>

\* coach.<entry point>(user_data), with the service answering r
CallEntryPoint(kind, r) ==
    /\ pc = "entry"
    /\ LET o == EntryPoint(kind, user_profile, r)
       IN  /\ result' = [kind |-> kind, outcome |-> o]
           /\ response' = IF Len(o.sent) > 0 THEN r ELSE response
           /\ error_log' = error_log \o o.log
           /\ calls' = calls \o [i \in 1..Len(o.sent) |->
                                   [op |-> "generate", kind |-> kind,
                                    model |-> model_attempts[coach_model],
                                    request |-> o.sent[i]]]
    /\ pc' = "returned"
    /\ UNCHANGED <<api_key, user_profile, generated_plans, generate_clicked,
                   profile_exists, model_index, coach_model, probe_outcomes,
                   displayed, st_errors>>

NextEntry == \E kind \in Kinds, r \in Responses : CallEntryPoint(kind, r)

SpecEntry == InitEntry /\ [][NextEntry]_vars

\* ---------------------------------------------------------------------------
\* Two calls on one coach object, with the session state moving in between:
\* the caller stores a returned plan (line 623) and a failed call has written
\* to the error log before the second request is built.
\* ---------------------------------------------------------------------------

\* st.session_state.generated_plans[plan_key] = plan, after a call returned
StoreReturned ==
    /\ pc = "returned"
    /\ ~result.outcome.raised
    /\ {"sport", "position"} \subseteq DOMAIN user_profile
    /\ generated_plans' = Store(generated_plans,
                                PlanKey(result.kind, user_profile),
                                result.outcome.value)
    /\ pc' = "stored"
    /\ UNCHANGED <<api_key, user_profile, error_log, generate_clicked,
                   profile_exists, model_index, coach_model, probe_outcomes,
                   calls, response, displayed, st_errors, result>>

\* a later coach.<entry point>(user_data) with the same profile
CallEntryPointAgain(kind, r) ==
    /\ pc \in {"returned", "stored"}
    /\ LET o == EntryPoint(kind, user_profile, r)
       IN  /\ result' = [kind |-> kind, outcome |-> o]
           /\ response' = IF Len(o.sent) > 0 THEN r ELSE response
           /\ error_log' = error_log \o o.log
           /\ calls' = calls \o [i \in 1..Len(o.sent) |->
                                   [op |-> "generate", kind |-> kind,
                                    model |-> model_attempts[coach_model],
                                    request |-> o.sent[i]]]
    /\ pc' = "returned_again"
    /\ UNCHANGED <<api_key, user_profile, generated_plans, generate_clicked,
                   profile_exists, model_index, coach_model, probe_outcomes,
                   displayed, st_errors>>

NextRepeat ==
    \/ \E kind \in Kinds, r \in Responses : CallEntryPoint(kind, r)
    \/ StoreReturned
    \/ \E kind \in Kinds, r \in Responses : CallEntryPointAgain(kind, r)

SpecRepeat == InitEntry /\ [][NextRepeat]_vars

-----------------------------------------------------------------------------
(* Properties *)

TabOf(kind) ==
    CASE kind = "training" -> "tab_training"
      [] kind = "nutrition" -> "tab_nutrition"
      [] kind = "tactical" -> "tab_tactical"

\* Positions in cs of the generation requests of a plan kind
GenerateCalls(cs, kind) ==
    { i \in DOMAIN cs : cs[i].op = "generate" /\ cs[i].kind = kind }

Contains(prompt, chunk) == \E i \in DOMAIN prompt : prompt[i] = chunk

ContainsSeq(prompt, chunks) ==
    \E i \in 1..(Len(prompt) + 1 - Len(chunks)) :
        SubSeq(prompt, i, i + Len(chunks) - 1) = chunks

\* A credential that is absent, empty or all whitespace
AbsentOrBlank(s) == s = NoSecret \/ \A i \in DOMAIN s : s[i] \in {" ", "\t", "\n"}

\* C1: a tab that finds no entry under its key K calls its generation entry
\* point exactly once in the run and, when text comes back, stores that text
\* under K and shows it; a tab that finds an entry under K makes no call,
\* leaves the cache alone and shows the stored text; no other step of a run
\* calls the entry point, and a stored entry stays as it is, so every later
\* run with the same K is served from the cache.
C1_MissGeneratesOnceHitServesStored ==
    [][\A kind \in Kinds :
         LET K == PlanKey(kind, user_profile)
         IN  /\ (pc = TabOf(kind) /\ K \notin DOMAIN generated_plans) =>
                  /\ GenerateCalls(calls, kind) = {}
                  /\ Cardinality(GenerateCalls(calls', kind)) = 1
                  /\ Len(calls') = Len(calls) + 1
                  /\ response'.kind = "text" =>
                       /\ K \in DOMAIN generated_plans'
                       /\ generated_plans'[K] =
                            ResponseText(calls'[Len(calls')].request.prompt, response')
                       /\ kind \in DOMAIN displayed'
                       /\ displayed'[kind] = generated_plans'[K]
             /\ (pc = TabOf(kind) /\ K \in DOMAIN generated_plans) =>
                  /\ calls' = calls
                  /\ GenerateCalls(calls, kind) = {}
                  /\ generated_plans' = generated_plans
                  /\ kind \in DOMAIN displayed'
                  /\ displayed'[kind] = generated_plans[K]
             /\ (pc # TabOf(kind) /\ pc' # "idle") =>
                  GenerateCalls(calls', kind) = GenerateCalls(calls, kind)
             /\ \A k \in DOMAIN generated_plans :
                  k \in DOMAIN generated_plans' /\ generated_plans'[k] = generated_plans[k]
      ]_vars

\* A run whose training tab was served from the cache without a call
C1_Witness ==
    /\ pc = "tab_nutrition"
    /\ "training" \in DOMAIN displayed
    /\ GenerateCalls(calls, "training") = {}
    /\ displayed["training"] = generated_plans[PlanKey("training", user_profile)]

\* C2: when a tab's generation call comes back with no response, with empty
\* text or with an error, the run shows that tab's error message, stores
\* nothing in generated_plans and ends normally; no stored text is empty.
C2_FailedGenerationReportedNotCached ==
    [][/\ \A kind \in Kinds :
            (pc = TabOf(kind) /\ calls' # calls /\ response'.kind # "text") =>
                /\ st_errors' = Append(st_errors, TabErrorText(kind))
                /\ generated_plans' = generated_plans
                /\ pc' = "done"
       /\ \A k \in DOMAIN generated_plans' : generated_plans'[k].body # ""
      ]_vars

\* A run ended by an empty response to the nutrition request
C2_Witness ==
    /\ pc = "done"
    /\ response.kind = "empty"
    /\ GenerateCalls(calls, "nutrition") # {}
    /\ st_errors = <<TabErrorText("nutrition")>>
    /\ PlanKey("nutrition", user_profile) \notin DOMAIN generated_plans

\* The injury a training prompt was written for
InjuryNamed(prompt) ==
    IF \E i \in 1..(Len(prompt) - 1) : prompt[i] = "INJURY:"
    THEN prompt[(CHOOSE i \in 1..(Len(prompt) - 1) : prompt[i] = "INJURY:") + 1]
    ELSE "None"

\* C3: the training tab never serves a profile a cached plan that was
\* generated for another current_injury value: it generates a new plan.
C3_CachedTrainingPlanMatchesInjury ==
    [][LET K == PlanKey("training", user_profile)
       IN  (/\ pc = "tab_training"
            /\ K \in DOMAIN generated_plans
            /\ InjuryNamed(generated_plans[K].reply_to) # user_profile.current_injury)
           => /\ Cardinality(GenerateCalls(calls', "training")) = 1
              /\ "training" \in DOMAIN displayed' => displayed'["training"] # generated_plans[K]
      ]_vars

\* C4 as stated: a run started by the generate button that gets to generate
\* makes exactly one generation call to the external service, for one plan
\* kind only.
C4_OneServiceCallPerRun ==
    (pc = "done" /\ generate_clicked /\ coach_model # 0) =>
        /\ Cardinality({ i \in DOMAIN calls : calls[i].op = "generate" }) = 1
        /\ Cardinality({ kind \in Kinds : GenerateCalls(calls, kind) # {} }) <= 1

\* C4 amended: a run makes at most one generation call per plan kind, the
\* calls of the kinds in the order training, nutrition, tactical, each made
\* with the model that coach initialization selected after its own calls
\* (configure, model listing, probes).
C4_OneGenerationPerKindInTabOrder ==
    /\ \A kind \in Kinds : Cardinality(GenerateCalls(calls, kind)) <= 1
    /\ \A i, j \in DOMAIN calls :
         /\ (calls[i].op = "generate" /\ calls[j].op # "generate") => j < i
         /\ (calls[i].op = "generate" /\ calls[j].op = "generate" /\ i < j) =>
                << calls[i].kind, calls[j].kind >> \in
                    { <<"training", "nutrition">>, <<"training", "tactical">>,
                      <<"nutrition", "tactical">> }
         /\ calls[i].op = "generate" =>
                coach_model # 0 /\ calls[i].model = model_attempts[coach_model]

\* A run started by the button that generated all three plans
C4_Witness ==
    /\ pc = "done"
    /\ generate_clicked
    /\ \A kind \in Kinds : Cardinality(GenerateCalls(calls, kind)) = 1

\* C5: a run that reads an absent or blank GEMINI_API_KEY ends at coach
\* initialization: it has sent nothing to the external service, has shown no
\* tab, and leaves generated_plans as it was.
C5_MissingCredentialHaltsAtInit ==
    [][(api_key' # Unread /\ AbsentOrBlank(api_key')) =>
          /\ pc' = "done"
          /\ calls' = <<>>
          /\ displayed' = EmptyDict
          /\ generated_plans' = generated_plans
          /\ st_errors' # <<>>
      ]_vars

\* A run halted by a whitespace-only credential while plans are cached
C5_Witness ==
    /\ pc = "done"
    /\ api_key = <<" ", "\t">>
    /\ calls = <<>>
    /\ generated_plans # EmptyDict

AllProbesFailed ==
    /\ Len(probe_outcomes) = Len(model_attempts)
    /\ \A i \in DOMAIN probe_outcomes : ~probe_outcomes[i]

\* The model identifiers probed so far in the run, in probing order
Probed ==
    LET RECURSIVE Pick(_)
        Pick(cs) == IF cs = <<>> THEN <<>>
                    ELSE IF Head(cs).op = "probe"
                         THEN <<Head(cs).model>> \o Pick(Tail(cs))
                         ELSE Pick(Tail(cs))
    IN  Pick(calls)

\* C6: the identifiers are probed in list order; the selected one is the
\* first whose probe returned non-empty text, every one before it was probed
\* and failed, none after it is probed; initialization fails for want of a
\* model exactly when all identifiers failed their probes.
C6_FirstWorkingModelSelected ==
    /\ Len(probe_outcomes) = Len(Probed)
    /\ Probed = SubSeq(model_attempts, 1, Len(Probed))
    /\ coach_model # 0 =>
          /\ Len(probe_outcomes) = coach_model
          /\ probe_outcomes[coach_model]
          /\ \A i \in 1..(coach_model - 1) : ~probe_outcomes[i]
    /\ (coach_model = 0 /\ Len(probe_outcomes) > 0) =>
          \A i \in DOMAIN probe_outcomes : ~probe_outcomes[i]
    /\ pc = "init_check" => (coach_model = 0 <=> AllProbesFailed)
    /\ (Len(probe_outcomes) > 0 /\ pc \in {"tab_training", "tab_nutrition", "tab_tactical", "done"}) =>
          (("CoachBotAI Initialization Failed" \in Range(st_errors)) <=> AllProbesFailed)

\* The third identifier selected after the first two failed
C6_Witness ==
    /\ pc = "init_check"
    /\ coach_model = 3
    /\ probe_outcomes = <<FALSE, FALSE, TRUE>>

\* C7: a generation entry point returns the non-empty text of the model's
\* response or raises an exception of the generic type Exception: it returns
\* no empty value, and a missing required field, an empty or absent response
\* and a service error all reach the caller as Exception.
C7_EntryPointReturnsTextOrException ==
    pc = "returned" =>
        LET o == result.outcome
        IN  /\ o.raised => o.exc = "Exception"
            /\ ~o.raised =>
                  /\ o.value.body # ""
                  /\ Len(calls) = 1
                  /\ response.kind = "text"
                  /\ o.value = ResponseText(calls[1].request.prompt, response)
            /\ (result.kind = "training" /\ Missing(user_profile, required_fields)) =>
                  o.raised /\ calls = <<>>
            /\ (calls # <<>> /\ response.kind # "text") => o.raised

\* create_personalized_plan called on a profile without current_injury
C7_Witness ==
    /\ pc = "returned"
    /\ result.kind = "training"
    /\ "current_injury" \notin DOMAIN user_profile
    /\ result.outcome.raised
    /\ result.outcome.exc = "Exception"

\* C8: create_personalized_plan, given a complete profile, sends one prompt:
\* for a current_injury other than "None" the injury-modified prompt, which
\* names the injury and tells not to recommend exercises that could worsen
\* it, and not the 4-week prompt; for "None" the 4-week prompt and not the
\* injury-modified one.
C8_InjuryDecidesTrainingPrompt ==
    (pc = "returned" /\ result.kind = "training") =>
        /\ Len(calls) <= 1
        /\ user_profile \in SidebarProfiles => Len(calls) = 1
        /\ Len(calls) = 1 =>
             LET prompt == calls[1].request.prompt
                 injury == user_profile.current_injury
             IN  IF injury # "None"
                 THEN /\ ContainsSeq(prompt, <<"INJURY:", injury>>)
                      /\ ContainsSeq(prompt,
                            <<"1. DO NOT recommend exercises that could worsen", injury>>)
                      /\ ~Contains(prompt, "4-week")
                 ELSE /\ Contains(prompt, "4-week")
                      /\ ~Contains(prompt, "INJURY:")
                      /\ ~Contains(prompt, "1. DO NOT recommend exercises that could worsen")

\* The injury-modified prompt sent for a hamstring strain
C8_Witness ==
    /\ pc = "returned"
    /\ result.kind = "training"
    /\ "current_injury" \in DOMAIN user_profile
    /\ user_profile.current_injury = "Hamstring strain"
    /\ Len(calls) = 1
    /\ ContainsSeq(calls[1].request.prompt,
          <<"1. DO NOT recommend exercises that could worsen", "Hamstring strain">>)

\* C9: for a profile with current_injury "None" the training prompt holds
\* the sport in upper case, the position as given and the phrase "4-week".
C9_NormalPromptNamesSportPositionFourWeeks ==
    (/\ pc = "returned"
     /\ result.kind = "training"
     /\ Len(calls) = 1
     /\ user_profile.current_injury = "None") =>
        LET prompt == calls[1].request.prompt
        IN  /\ user_profile.sport = "cricket" => ContainsSeq(prompt, <<"SPORT:", "CRICKET">>)
            /\ user_profile.sport = "kabaddi" => ContainsSeq(prompt, <<"SPORT:", "KABADDI">>)
            /\ ContainsSeq(prompt, <<"POSITION:", user_profile.position>>)
            /\ Contains(prompt, "4-week")

\* The prompt for a healthy cricket batsman
C9_Witness ==
    /\ pc = "returned"
    /\ result.kind = "training"
    /\ Len(calls) = 1
    /\ "current_injury" \in DOMAIN user_profile
    /\ user_profile.current_injury = "None"
    /\ user_profile.sport = "cricket"
    /\ user_profile.position = "Batsman"
    /\ Contains(calls[1].request.prompt, "CRICKET")

\* C10: a nutrition prompt built from a profile whose weight (height) is
\* absent or blank shows "Not specified" for the weight (height).
C10_BlankMeasurementShowsPlaceholder ==
    \A i \in GenerateCalls(calls, "nutrition") :
        LET prompt == calls[i].request.prompt
        IN  /\ Get(user_profile, "weight", "") = "" =>
                 ContainsSeq(prompt, <<"- Weight:", "Not specified", "kg">>)
            /\ Get(user_profile, "height", "") = "" =>
                 ContainsSeq(prompt, <<"- Height:", "Not specified", "cm">>)

WeightNamed(prompt) ==
    prompt[(CHOOSE i \in 1..(Len(prompt) - 1) : prompt[i] = "- Weight:") + 1]

\* the dietary section (restrictions and rare allergies) of a nutrition prompt
DietaryNamed(prompt) ==
    LET from == CHOOSE i \in DOMAIN prompt : prompt[i] = "DIETARY RESTRICTIONS:"
        to   == CHOOSE i \in DOMAIN prompt : prompt[i] = "NUTRITIONAL REQUIREMENTS: ..."
    IN  SubSeq(prompt, from, to - 1)

C12_CachedNutritionPlanMatchesProfile ==
    [][LET K == PlanKey("nutrition", user_profile)
           now == NutritionPrompt(user_profile)
       IN  (/\ pc = "tab_nutrition"
            /\ K \in DOMAIN generated_plans
            /\ \/ WeightNamed(generated_plans[K].reply_to) # WeightNamed(now)
               \/ DietaryNamed(generated_plans[K].reply_to) # DietaryNamed(now))
           => /\ Cardinality(GenerateCalls(calls', "nutrition")) = 1
              /\ "nutrition" \in DOMAIN displayed' => displayed'["nutrition"] # generated_plans[K]
      ]_vars

\* ---------------------------------------------------------------------------
\* C13  Cache entries are never evicted or overwritten within a session:
\*      every step of every run (a changed profile, a failed generation, a
\*      failed initialization, a cleared error log) leaves each key already in
\*      generated_plans present and mapped to the same text.
\* ---------------------------------------------------------------------------
C13_CacheEntriesKept ==
    [][\A key \in DOMAIN generated_plans :
          /\ key \in DOMAIN generated_plans'
          /\ generated_plans'[key] = generated_plans[key]
      ]_vars

\* a run that failed at initialization ends with earlier entries still cached
C13_Witness ==
    /\ pc = "done"
    /\ AllProbesFailed
    /\ Cardinality(DOMAIN generated_plans) >= 2

\* ---------------------------------------------------------------------------
\* C14  The error log is append-only and manually clearable: a step other
\*      than the "Clear Error Log" button keeps the entries already logged,
\*      unchanged and in place, as a prefix of the new log; the button's step
\*      leaves the log empty.
\* ---------------------------------------------------------------------------
IsPrefix(s, t) == Len(s) <= Len(t) /\ SubSeq(t, 1, Len(s)) = s

\* the only step taken between runs without starting one is the button's
ClearStep == pc = "idle" /\ pc' = "idle"

C14_LogAppendOnlyUntilCleared ==
    [][IF ClearStep
       THEN error_log' = <<>>
       ELSE IsPrefix(error_log, error_log')
      ]_vars

\* an earlier run's log was cleared after it cached a plan; in this run all
\* models were probed and failed, and the log holds the whole run's entries,
\* the last one written by main's handler
C14_Witness ==
    /\ pc = "done"
    /\ generated_plans # EmptyDict
    /\ AllProbesFailed
    /\ Len(error_log) > 2 * Len(model_attempts)
    /\ error_log[Len(error_log)] = "Main - Coach Initialization"

\* ---------------------------------------------------------------------------
\* C15  In every reachable state and for every sport and position: a cached
\*      tactical-advice entry implies a cached nutrition-plan entry, and a
\*      cached nutrition-plan entry implies a cached training-plan entry.
\* ---------------------------------------------------------------------------
C15_LaterKindCachedOnlyAfterEarlier ==
    \A u \in SidebarProfiles :
        /\ PlanKey("tactical", u) \in DOMAIN generated_plans
           => PlanKey("nutrition", u) \in DOMAIN generated_plans
        /\ PlanKey("nutrition", u) \in DOMAIN generated_plans
           => PlanKey("training", u) \in DOMAIN generated_plans

\* a run stopped at a failed tactical generation: for one sport and position
\* the training and nutrition entries are cached and the tactical one is not,
\* while another sport and position has all three
C15_Witness ==
    /\ pc = "done"
    /\ \E u \in SidebarProfiles :
          /\ PlanKey("training", u) \in DOMAIN generated_plans
          /\ PlanKey("nutrition", u) \in DOMAIN generated_plans
          /\ PlanKey("tactical", u) \notin DOMAIN generated_plans
    /\ \E u \in SidebarProfiles :
          PlanKey("tactical", u) \in DOMAIN generated_plans

====
